---- MODULE Spec2Model ----
(***************************************************************************)
(* Model of the reporting code of playwright-api:                          *)
(*   - ReportGenerator (result collector and HTML/summary renderer),       *)
(*   - scripts/generateReport.js (HTMLReportGenerator, the standalone      *)
(*     "enhanced report" script).                                          *)
(* The two run in different processes; `prog` says which one a behaviour   *)
(* follows.                                                                *)
(***************************************************************************)
EXTENDS Integers, Sequences, FiniteSets, TLC

(***************************************************************************)
(* Bounds and input sets                                                   *)
(***************************************************************************)
\* most addTestResult and saveHTMLReport calls in one run
MaxCalls == 2
\* largest counter value found in a test-results.json file
MaxCount == 8

\* most generateUniqueEmail calls in one run
MaxEmails == 2

\* JavaScript's undefined (an absent optional argument or environment variable)
Undefined == "<undefined>"

SuiteNames == {"Auth", "Users"}
Statuses == {"passed", "failed", "skipped"}
\* (testName, duration, error) arguments handed to addTestResult
TestInputs ==
    { [name |-> "login-ok", duration |-> 120, error |-> Undefined],
      [name |-> "login-fail", duration |-> 80, error |-> "expected 200 got 401"],
      [name |-> "health", duration |-> -40, error |-> ""] }
\* the instants new Date() can return
Times == {0, 1}
\* values of process.env.TEST_ENV
EnvValues == {Undefined, "staging"}

(***************************************************************************)
(* JavaScript helpers                                                      *)
(***************************************************************************)
\* truthiness of an optional string: undefined and "" are falsy
Truthy(s) == s # Undefined /\ s # ""

\* process.env.TEST_ENV || 'practice'
EnvLabel(e) == IF Truthy(e) THEN e ELSE "practice"

RECURSIVE Pow10(_)
Pow10(f) == IF f = 0 THEN 1 ELSE 10 * Pow10(f - 1)

RECURSIVE PadZeros(_, _)
\* the decimal digits of n, left-padded with zeros to width w
PadZeros(n, w) ==
    IF w = 0 THEN "" ELSE PadZeros(n \div 10, w - 1) \o ToString(n % 10)

\* Number.prototype.toFixed(f) of the quotient num/den (den > 0): the sign,
\* then the integer n for which n/10^f is nearest to |num/den| (the larger n
\* on a tie), written with exactly f fraction digits.  Exact for the values
\* of this model: their binary doubles round the same way.
ToFixed(num, den, f) ==
    LET a == IF num < 0 THEN -num ELSE num
        s == Pow10(f)
        n == (2 * a * s + den) \div (2 * den)
    IN  (IF num < 0 THEN "-" ELSE "")
        \o ToString(n \div s)
        \o (IF f = 0 THEN "" ELSE "." \o PadZeros(n % s, f))

\* a reduce whose callback drops the accumulator: (sum, suite) => suite[field]
SumFieldLast(rs, field) ==
    IF rs = << >> THEN 0 ELSE rs[Len(rs)][field]

\* fold of Array.prototype.reduce((sum, suite) => sum + suite[field], 0)
RECURSIVE SumField(_, _)
SumField(rs, field) ==
    IF rs = << >> THEN 0
    ELSE SumField(SubSeq(rs, 1, Len(rs) - 1), field) + rs[Len(rs)][field]

\* the rate cut off after one decimal instead of rounded
SuccessRateTruncated(passed, total) ==
    IF total > 0
    THEN ToString((1000 * passed) \div (10 * total)) \o "."
         \o ToString(((1000 * passed) \div total) % 10)
    ELSE "0"

\* total > 0 ? ((passed / total) * 100).toFixed(1) : 0, as interpolated
SuccessRate(passed, total) ==
    IF total > 0 THEN ToFixed(100 * passed, total, 1) ELSE "0"

(***************************************************************************)
(* State                                                                   *)
(***************************************************************************)
VARIABLES
    prog,       \* which program runs: "collector" or "script"
    env,        \* process.env.TEST_ENV
    clock,      \* the wall clock as last read by new Date()
    results,    \* ReportGenerator.results: the sequence of TestSuite
    calls,      \* history: the addTestResult calls made so far
    output,     \* the value returned by the last ReportGenerator method call
    disk,       \* the files and directories the report script reads and writes
    script,     \* the report script: its position, exit status and standard output
    again,      \* history: the last call repeated the render call before it
    fsys,       \* the directories and files saveHTMLReport works on
    api,        \* ApiHelpers: the stored token, the last request, the emails made
    writers     \* callers inside addTestResult: position, arguments and locals

vars == <<prog, env, clock, results, calls, output, disk, script, again, fsys, api,
          writers>>

\* what new Date() can return now: time never runs backwards
Now == {t \in Times : t >= clock}

\* a method that returns nothing (addTestResult is void)
NoOutput == [kind |-> "none"]

(***************************************************************************)
(* ReportGenerator.addTestResult                                           *)
(***************************************************************************)
\* a lookup that never matches
FindSuiteNever(rs, suiteName) == 0

\* this.results.find(s => s.name === suiteName): index of the first match, 0 if none
FindSuite(rs, suiteName) ==
    IF \E i \in 1..Len(rs) : rs[i].name = suiteName
    THEN CHOOSE i \in 1..Len(rs) :
            /\ rs[i].name = suiteName
            /\ \A j \in 1..(i - 1) : rs[j].name # suiteName
    ELSE 0

NewSuite(suiteName) ==
    [name |-> suiteName, total |-> 0, passed |-> 0, failed |-> 0,
     skipped |-> 0, duration |-> 0, results |-> << >>]

NewResult(testName, status, duration, error, now, e) ==
    [name |-> testName, status |-> status, duration |-> duration,
     error |-> error, timestamp |-> now, environment |-> EnvLabel(e)]

\* the switch without its break statements: a case runs into the ones below it
CountStatusFallThrough(suite, status) ==
    CASE status = "passed"  -> [suite EXCEPT !.passed = @ + 1, !.failed = @ + 1,
                                             !.skipped = @ + 1]
      [] status = "failed"  -> [suite EXCEPT !.failed = @ + 1, !.skipped = @ + 1]
      [] status = "skipped" -> [suite EXCEPT !.skipped = @ + 1]
      [] OTHER -> suite

\* a passed result counted twice
CountStatusPassedTwice(suite, status) ==
    CASE status = "passed"  -> [suite EXCEPT !.passed = @ + 2]
      [] status = "failed"  -> [suite EXCEPT !.failed = @ + 1]
      [] status = "skipped" -> [suite EXCEPT !.skipped = @ + 1]
      [] OTHER -> suite

\* the switch without its 'skipped' case
CountStatusNoSkipped(suite, status) ==
    CASE status = "passed"  -> [suite EXCEPT !.passed = @ + 1]
      [] status = "failed"  -> [suite EXCEPT !.failed = @ + 1]
      [] OTHER -> suite

\* switch (status) { case 'passed': suite.passed++; ... }
CountStatus(suite, status) ==
    CASE status = "passed"  -> [suite EXCEPT !.passed = @ + 1]
      [] status = "failed"  -> [suite EXCEPT !.failed = @ + 1]
      [] status = "skipped" -> [suite EXCEPT !.skipped = @ + 1]
      [] OTHER -> suite

\* unshift in place of push: the newest result first
RecordResultFront(suite, result) ==
    CountStatus([suite EXCEPT !.results = <<result>> \o @,
                              !.total = @ + 1,
                              !.duration = @ + result.duration],
                result.status)

\* a guard that drops a result with a negative duration
RecordResultValidated(suite, result) ==
    IF result.duration < 0
    THEN suite
    ELSE CountStatus([suite EXCEPT !.results = Append(@, result),
                                   !.total = @ + 1,
                                   !.duration = @ + result.duration],
                     result.status)

\* suite.results.push(result); suite.total++; suite.duration += duration; switch
RecordResult(suite, result) ==
    CountStatus([suite EXCEPT !.results = Append(@, result),
                              !.total = @ + 1,
                              !.duration = @ + result.duration],
                result.status)

\* a collector that is closed by its first saved report
AddTestResultToFrozen(rs, suiteName, result) ==
    IF fsys.saves > 0
    THEN rs
    ELSE LET found == FindSuite(rs, suiteName)
             rs1 == IF found = 0 THEN Append(rs, NewSuite(suiteName)) ELSE rs
             i == IF found = 0 THEN Len(rs1) ELSE found
         IN  [rs1 EXCEPT ![i] = RecordResult(@, result)]

\* unshift in place of push: a new suite goes to the front
AddTestResultToFront(rs, suiteName, result) ==
    LET found == FindSuite(rs, suiteName)
        rs1 == IF found = 0 THEN <<NewSuite(suiteName)>> \o rs ELSE rs
        i == IF found = 0 THEN 1 ELSE found
    IN  [rs1 EXCEPT ![i] = RecordResult(@, result)]

\* the whole method, as a function of this.results
AddTestResultTo(rs, suiteName, result) ==
    LET found == FindSuite(rs, suiteName)
        rs1 == IF found = 0 THEN Append(rs, NewSuite(suiteName)) ELSE rs
        i == IF found = 0 THEN Len(rs1) ELSE found
    IN  [rs1 EXCEPT ![i] = RecordResult(@, result)]

AddTestResult ==
    /\ prog = "collector"
    /\ Len(calls) + fsys.saves < MaxCalls
    /\ \E suiteName \in SuiteNames, status \in Statuses, t \in TestInputs,
          now \in Now :
          LET result == NewResult(t.name, status, t.duration, t.error, now, env)
          IN  /\ results' = AddTestResultTo(results, suiteName, result)
              /\ calls' = Append(calls, [suite |-> suiteName, result |-> result])
              /\ clock' = now
    /\ output' = NoOutput
    /\ again' = FALSE
    /\ UNCHANGED <<prog, env, disk, script, fsys, api, writers>>

(***************************************************************************)
(* ReportGenerator.addTestResult, statement by statement, for callers      *)
(* whose statements interleave                                             *)
(***************************************************************************)
Writers == {"w1", "w2"}

\* a caller that is not inside addTestResult
Idle == [pc |-> "idle"]

NoWriters == [w \in Writers |-> Idle]

\* some other caller is inside addTestResult
OthersInside(w) == \E v \in Writers \ {w} : writers[v].pc \notin {"idle", "done"}

\* a total that is not incremented
IncTotalSkipped(suite) == suite

\* suite.total++
IncTotal(suite) == [suite EXCEPT !.total = @ + 1]

\* the statements of addTestResult leave everything else alone
RaceFrame == UNCHANGED <<prog, env, calls, output, disk, script, again, fsys, api>>

\* addTestResult(suiteName, testName, status, duration, error) is entered
Enter(w) ==
    /\ prog = "race"
    /\ writers[w].pc = "idle"
    /\ \E suiteName \in SuiteNames, status \in Statuses, t \in TestInputs :
          writers' = [writers EXCEPT ![w] =
                        [pc |-> "find", suiteName |-> suiteName, status |-> status,
                         t |-> t, suite |-> 0, overlapped |-> OthersInside(w)]]
    /\ UNCHANGED <<clock, results>>
    /\ RaceFrame

\* let suite = this.results.find(s => s.name === suiteName)
Find(w) ==
    /\ prog = "race"
    /\ writers[w].pc = "find"
    /\ writers' = [writers EXCEPT ![w].suite = FindSuite(results, writers[w].suiteName),
                                  ![w].pc = "create"]
    /\ UNCHANGED <<clock, results>>
    /\ RaceFrame

\* if (!suite) { suite = {...}; this.results.push(suite) }
Create(w) ==
    /\ prog = "race"
    /\ writers[w].pc = "create"
    /\ IF writers[w].suite = 0
       THEN /\ results' = Append(results, NewSuite(writers[w].suiteName))
            /\ writers' = [writers EXCEPT ![w].suite = Len(results) + 1,
                                          ![w].pc = "push"]
       ELSE /\ results' = results
            /\ writers' = [writers EXCEPT ![w].pc = "push"]
    /\ UNCHANGED clock
    /\ RaceFrame

\* const result = {...}; suite.results.push(result)
Push(w) ==
    /\ prog = "race"
    /\ writers[w].pc = "push"
    /\ \E now \in Now :
          LET a == writers[w]
              result == NewResult(a.t.name, a.status, a.t.duration, a.t.error, now, env)
          IN  /\ clock' = now
              /\ results' = [results EXCEPT ![a.suite].results = Append(@, result)]
    /\ writers' = [writers EXCEPT ![w].pc = "total"]
    /\ RaceFrame

\* suite.total++
Total(w) ==
    /\ prog = "race"
    /\ writers[w].pc = "total"
    /\ results' = [results EXCEPT ![writers[w].suite] = IncTotal(@)]
    /\ writers' = [writers EXCEPT ![w].pc = "duration"]
    /\ UNCHANGED clock
    /\ RaceFrame

\* suite.duration += duration
Duration(w) ==
    /\ prog = "race"
    /\ writers[w].pc = "duration"
    /\ results' = [results EXCEPT ![writers[w].suite].duration =
                                     @ + writers[w].t.duration]
    /\ writers' = [writers EXCEPT ![w].pc = "count"]
    /\ UNCHANGED clock
    /\ RaceFrame

\* switch (status) { ... }, and the method returns
Count(w) ==
    /\ prog = "race"
    /\ writers[w].pc = "count"
    /\ results' = [results EXCEPT ![writers[w].suite] = CountStatus(@, writers[w].status)]
    /\ writers' = [writers EXCEPT ![w].pc = "done"]
    /\ UNCHANGED clock
    /\ RaceFrame

(***************************************************************************)
(* ReportGenerator.generateHTMLReport / generateSummary                    *)
(***************************************************************************)
\* whole seconds, without toFixed(2)
DurationTextWhole(ms) == ToString(ms \div 1000) \o "s"

\* the seconds with one decimal place
DurationTextOneDecimal(ms) == ToFixed(ms, 1000, 1) \o "s"

\* `${(ms / 1000).toFixed(2)}s`
DurationText(ms) == ToFixed(ms, 1000, 2) \o "s"

StatCard(label, value) == [label |-> label, value |-> value]

\* an error block for failed results only
ResultBlocksFailedOnly(result) ==
    << [class |-> "test-result", name |-> result.name, status |-> result.status,
        duration |-> DurationText(result.duration)] >>
    \o (IF result.status = "failed" /\ Truthy(result.error)
        THEN << [class |-> "error-details", text |-> result.error] >>
        ELSE << >>)

\* the error block placed above the entry it belongs to
ResultBlocksErrorFirst(result) ==
    (IF Truthy(result.error)
     THEN << [class |-> "error-details", text |-> result.error] >>
     ELSE << >>)
    \o << [class |-> "test-result", name |-> result.name, status |-> result.status,
           duration |-> DurationText(result.duration)] >>

\* one <div class="test-result">, followed by its error block if any
ResultBlocks(result) ==
    << [class |-> "test-result", name |-> result.name, status |-> result.status,
        duration |-> DurationText(result.duration)] >>
    \o (IF Truthy(result.error)
        THEN << [class |-> "error-details", text |-> result.error] >>
        ELSE << >>)

RECURSIVE SuiteBlocksReversed(_)
\* the results rendered newest first
SuiteBlocksReversed(rs) ==
    IF rs = << >> THEN << >>
    ELSE SuiteBlocksReversed(Tail(rs)) \o ResultBlocks(Head(rs))

RECURSIVE SuiteBlocks(_)
\* suite.results.map(...).join('')
SuiteBlocks(rs) ==
    IF rs = << >> THEN << >>
    ELSE ResultBlocks(Head(rs)) \o SuiteBlocks(Tail(rs))

\* one <div class="suite">
SuiteBlock(suite) ==
    [name |-> suite.name,
     passed |-> ToString(suite.passed),
     failed |-> ToString(suite.failed),
     skipped |-> ToString(suite.skipped),
     duration |-> DurationText(suite.duration),
     blocks |-> SuiteBlocks(suite.results)]

\* the five reduce calls that open generateHTMLReport and generateSummary
Totals(rs) ==
    [totalTests |-> SumField(rs, "total"),
     totalPassed |-> SumField(rs, "passed"),
     totalFailed |-> SumField(rs, "failed"),
     totalSkipped |-> SumField(rs, "skipped"),
     totalDuration |-> SumField(rs, "duration")]

\* the duration card shows the seconds since startTime (the construction, at 0)
GenerateHTMLReportElapsed(rs, now, e) ==
    LET t == Totals(rs)
    IN  [kind |-> "html",
         generatedOn |-> now,
         stats |-> << StatCard("Passed", ToString(t.totalPassed)),
                      StatCard("Failed", ToString(t.totalFailed)),
                      StatCard("Skipped", ToString(t.totalSkipped)),
                      StatCard("Total Tests", ToString(t.totalTests)),
                      StatCard("Total Duration", DurationText(1000 * (now - 0))) >>,
         suites |-> [i \in 1..Len(rs) |-> SuiteBlock(rs[i])],
         environment |-> EnvLabel(e)]

\* the grid without its "Total Tests" card
GenerateHTMLReportNoTotal(rs, now, e) ==
    LET t == Totals(rs)
    IN  [kind |-> "html",
         generatedOn |-> now,
         stats |-> << StatCard("Passed", ToString(t.totalPassed)),
                      StatCard("Failed", ToString(t.totalFailed)),
                      StatCard("Skipped", ToString(t.totalSkipped)),
                      StatCard("Total Duration", DurationText(t.totalDuration)) >>,
         suites |-> [i \in 1..Len(rs) |-> SuiteBlock(rs[i])],
         environment |-> EnvLabel(e)]

\* the document, as its variable parts in document order
GenerateHTMLReport(rs, now, e) ==
    LET t == Totals(rs)
    IN  [kind |-> "html",
         generatedOn |-> now,
         stats |-> << StatCard("Passed", ToString(t.totalPassed)),
                      StatCard("Failed", ToString(t.totalFailed)),
                      StatCard("Skipped", ToString(t.totalSkipped)),
                      StatCard("Total Tests", ToString(t.totalTests)),
                      StatCard("Total Duration", DurationText(t.totalDuration)) >>,
         suites |-> [i \in 1..Len(rs) |-> SuiteBlock(rs[i])],
         environment |-> EnvLabel(e)]

\* the text, as its variable parts in order
GenerateSummary(rs, now, e) ==
    LET t == Totals(rs)
    IN  [kind |-> "summary",
         generatedOn |-> now,
         environment |-> EnvLabel(e),
         duration |-> DurationText(t.totalDuration),
         passed |-> ToString(t.totalPassed),
         failed |-> ToString(t.totalFailed),
         skipped |-> ToString(t.totalSkipped),
         total |-> ToString(t.totalTests),
         successRate |-> SuccessRate(t.totalPassed, t.totalTests)]

RenderHTML ==
    /\ prog = "collector"
    /\ \E now \in Now :
          /\ output' = GenerateHTMLReport(results, now, env)
          /\ clock' = now
    /\ again' = (output.kind = "html")
    /\ UNCHANGED <<prog, env, results, calls, disk, script, fsys, api, writers>>

RenderSummary ==
    /\ prog = "collector"
    /\ \E now \in Now :
          /\ output' = GenerateSummary(results, now, env)
          /\ clock' = now
    /\ again' = (output.kind = "summary")
    /\ UNCHANGED <<prog, env, results, calls, disk, script, fsys, api, writers>>

(***************************************************************************)
(* ReportGenerator.saveHTMLReport                                          *)
(***************************************************************************)
\* argument lists of saveHTMLReport: no argument, or a path as its segments
SaveArgs == { << >>, << <<"reports", "html", "out.html">> >> }

\* outputPath: string = 'custom-report.html'
OutputPath(args) == IF Len(args) = 0 THEN <<"custom-report.html">> ELSE args[1]

OutputPaths == {OutputPath(args) : args \in SaveArgs}

\* path.dirname(outputPath)
Dirname(p) == IF Len(p) = 1 THEN <<".">> ELSE SubSeq(p, 1, Len(p) - 1)

\* a mkdirSync without the recursive option, where the parent is missing too
MkdirNotRecursive(dir) == {SubSeq(dir, 1, k) : k \in 1..(Len(dir) - 1)}

\* the directories mkdirSync(dir, { recursive: true }) makes sure of
MkdirRecursive(dir) == {SubSeq(dir, 1, k) : k \in 1..Len(dir)}

NoFile == [kind |-> "absent"]

\* a write that is tried again after a failure, until it succeeds
WriteFileSyncRetry(files, p, data, ok) ==
    [files |-> [files EXCEPT ![p] = data],
     attempts |-> IF ok THEN 1 ELSE 2,
     failures |-> IF ok THEN 0 ELSE 1,
     threw |-> FALSE]

\* fs.writeFileSync(outputPath, html): one attempt, which throws when it fails
WriteFileSync(files, p, data, ok) ==
    [files |-> IF ok THEN [files EXCEPT ![p] = data] ELSE files,
     attempts |-> 1,
     failures |-> IF ok THEN 0 ELSE 1,
     threw |-> ~ok]

\* saveHTMLReport(outputPath): render, make the directory if it is missing,
\* write once, log; an exception of mkdirSync or writeFileSync is not caught
SaveHTMLReport ==
    /\ prog = "collector"
    /\ Len(calls) + fsys.saves < MaxCalls
    /\ \E args \in SaveArgs, now \in Now, mkdirOk \in BOOLEAN, writeOk \in BOOLEAN :
          LET outputPath == OutputPath(args)
              html == GenerateHTMLReport(results, now, env)
              dir == Dirname(outputPath)
              missing == dir \notin fsys.dirs
              w == WriteFileSync(fsys.files, outputPath, html, writeOk)
          IN  /\ clock' = now
              /\ IF missing /\ ~mkdirOk
                 THEN /\ fsys' = [fsys EXCEPT !.saves = @ + 1]
                      /\ output' = [kind |-> "save", args |-> args, path |-> outputPath,
                                    mkdir |-> TRUE,
                                    threw |-> TRUE, attempts |-> 0, failures |-> 0,
                                    logged |-> FALSE]
                 ELSE /\ fsys' = [dirs |-> IF missing
                                           THEN fsys.dirs \cup MkdirRecursive(dir)
                                           ELSE fsys.dirs,
                                  files |-> w.files,
                                  saves |-> fsys.saves + 1]
                      /\ output' = [kind |-> "save", args |-> args, path |-> outputPath,
                                    mkdir |-> missing,
                                    threw |-> w.threw, attempts |-> w.attempts,
                                    failures |-> w.failures, logged |-> ~w.threw]
    /\ again' = FALSE
    /\ UNCHANGED <<prog, env, results, calls, disk, script, api, writers>>

(***************************************************************************)
(* scripts/generateReport.js: HTMLReportGenerator and main                 *)
(***************************************************************************)
\* contents of test-results/test-results.json with numeric statistics
StatsFiles ==
    [state : {"stats"},
     stats : [passed : 0..MaxCount, failed : {0, 1}, skipped : {2},
              total : 0..MaxCount, duration : {0, 1230}]]

\* the file is absent, is not JSON, or is JSON without a stats object
ResultsFiles ==
    {[state |-> "missing"], [state |-> "invalid"], [state |-> "nostats"]}
    \cup StatsFiles

\* x || 0
OrZero(x) == IF x = 0 THEN 0 ELSE x

\* the default record with the duration in the two-decimal format
DefaultResultsTwoDecimals ==
    [passed |-> 0, failed |-> 0, skipped |-> 0, total |-> 0, duration |-> "0.00s"]

DefaultResults ==
    [passed |-> 0, failed |-> 0, skipped |-> 0, total |-> 0, duration |-> "0s"]

\* a warning logged for a file that is absent as well
GetTestResultsWarnMissing(file) ==
    IF file.state = "stats"
    THEN [results |-> [passed |-> OrZero(file.stats.passed),
                       failed |-> OrZero(file.stats.failed),
                       skipped |-> OrZero(file.stats.skipped),
                       total |-> OrZero(file.stats.total),
                       duration |-> DurationText(file.stats.duration)],
          warned |-> FALSE]
    ELSE [results |-> DefaultResults, warned |-> TRUE]

\* an empty catch block: the defaults are returned without a warning
GetTestResultsSilent(file) ==
    IF file.state = "stats"
    THEN [results |-> [passed |-> OrZero(file.stats.passed),
                       failed |-> OrZero(file.stats.failed),
                       skipped |-> OrZero(file.stats.skipped),
                       total |-> OrZero(file.stats.total),
                       duration |-> DurationText(file.stats.duration)],
          warned |-> FALSE]
    ELSE [results |-> DefaultResults, warned |-> FALSE]

\* getTestResults: the record returned and whether the catch block logged
GetTestResults(file) ==
    CASE file.state = "missing" ->
            [results |-> DefaultResults, warned |-> FALSE]
      [] file.state \in {"invalid", "nostats"} ->
            [results |-> DefaultResults, warned |-> TRUE]
      [] OTHER ->
            [results |-> [passed |-> OrZero(file.stats.passed),
                          failed |-> OrZero(file.stats.failed),
                          skipped |-> OrZero(file.stats.skipped),
                          total |-> OrZero(file.stats.total),
                          duration |-> DurationText(file.stats.duration)],
             warned |-> FALSE]

\* HTMLReportGenerator.generateSummary: { ...results, successRate }
ScriptSummary(r) ==
    [passed |-> r.passed, failed |-> r.failed, skipped |-> r.skipped,
     total |-> r.total, duration |-> r.duration,
     successRate |-> SuccessRate(r.passed, r.total)]

\* createEnhancedHTML: the document, as its variable parts in document order
CreateEnhancedHTML(file, now, e) ==
    LET summary == ScriptSummary(GetTestResults(file).results)
    IN  [kind |-> "enhanced",
         generatedOn |-> now,
         stats |-> << StatCard("Tests Passed", ToString(summary.passed)),
                      StatCard("Tests Failed", ToString(summary.failed)),
                      StatCard("Tests Skipped", ToString(summary.skipped)),
                      StatCard("Total Tests", ToString(summary.total)),
                      StatCard("Duration", summary.duration),
                      StatCard("Success Rate", summary.successRate \o "%") >>,
         section |-> [environment |-> EnvLabel(e),
                      duration |-> summary.duration,
                      successRate |-> summary.successRate \o "%"]]

Warning == "Could not read test results, using defaults"

\* generator.checkDirectories()
CheckDirectories ==
    /\ prog = "script"
    /\ script.pc = "checkDirectories"
    /\ IF ~disk.reportDir
       THEN /\ script' = [script EXCEPT
                            !.pc = "exited", !.exit = 1,
                            !.log = Append(@, "Playwright report directory not found")]
            /\ disk' = disk
       ELSE /\ script' = [script EXCEPT !.pc = "generateEnhancedReport"]
            /\ disk' = [disk EXCEPT !.customDir = TRUE]
    /\ UNCHANGED <<prog, env, clock, results, calls, output, again, fsys, api, writers>>

\* generator.generateEnhancedReport(); a failing writeFileSync throws into
\* main's catch, which reports the error and exits with status 1
GenerateEnhancedReport ==
    /\ prog = "script"
    /\ script.pc = "generateEnhancedReport"
    /\ \E writeOk \in BOOLEAN, now \in Now :
          LET reportPath == [dir |-> "custom-reports", stamp |-> now]
              html == CreateEnhancedHTML(disk.resultsFile, now, env)
              log1 == IF GetTestResults(disk.resultsFile).warned
                      THEN Append(script.log, Warning)
                      ELSE script.log
          IN  /\ clock' = now
              /\ IF writeOk
                 THEN /\ disk' = [disk EXCEPT
                                    !.reports = Append(@, [path |-> reportPath,
                                                           html |-> html])]
                      /\ script' = [script EXCEPT
                                      !.pc = "openReport",
                                      !.log = Append(log1, "Enhanced HTML report generated")]
                 ELSE /\ disk' = disk
                      /\ script' = [script EXCEPT
                                      !.pc = "exited", !.exit = 1,
                                      !.log = Append(log1, "Error generating report")]
    /\ UNCHANGED <<prog, env, results, calls, output, again, fsys, api, writers>>

\* an openReport whose failing execSync reaches main's catch
OpenReportUncaught ==
    /\ prog = "script"
    /\ script.pc = "openReport"
    /\ \E openOk \in BOOLEAN :
          script' = [script EXCEPT
                       !.pc = "exited", !.exit = IF openOk THEN 0 ELSE 1,
                       !.log = Append(@, IF openOk
                                         THEN "Opening report in browser..."
                                         ELSE "Error generating report")]
    /\ UNCHANGED <<prog, env, clock, results, calls, output, disk, again, fsys, api, writers>>

\* generator.openReport(reportPath): a failing execSync is caught and logged
OpenReport ==
    /\ prog = "script"
    /\ script.pc = "openReport"
    /\ \E openOk \in BOOLEAN :
          script' = [script EXCEPT
                       !.pc = "exited", !.exit = 0,
                       !.log = Append(@, IF openOk
                                         THEN "Opening report in browser..."
                                         ELSE "Open this file in your browser")]
    /\ UNCHANGED <<prog, env, clock, results, calls, output, disk, again, fsys, api, writers>>

(***************************************************************************)
(* ApiHelpers                                                              *)
(***************************************************************************)
\* the verbs the switch statements dispatch
Verbs == {"GET", "POST", "PATCH", "DELETE"}

\* method arguments of makeUnauthorizedRequest and makeInvalidDataRequest
Methods == {"GET", "get", "Post", "patch", "DELETE", "PUT", "put", "HEAD"}

\* method.toUpperCase()
ToUpperCase(method) ==
    CASE method \in {"GET", "get"} -> "GET"
      [] method \in {"POST", "Post"} -> "POST"
      [] method \in {"PATCH", "patch"} -> "PATCH"
      [] method \in {"DELETE"} -> "DELETE"
      [] method \in {"PUT", "put"} -> "PUT"
      [] method \in {"HEAD"} -> "HEAD"

Endpoints == {"/notes/api/health-check", "/notes/api/users/profile"}

\* request bodies: none, or some object
Bodies == {Undefined, "body"}

\* arguments of setAuthToken and of the business methods that take a token
Tokens == {"", "tokA", "tokB"}

\* customHeaders left out: the spread adds no key
NoHeaders == [n \in {} |-> ""]

\* customHeaders arguments
CustomHeaders ==
    {NoHeaders,
     [n \in {"Authorization"} |-> "Basic abc"],
     [n \in {"accept"} |-> "text/plain"],
     [n \in {"x-auth-token"} |-> "tokA"]}

\* { ...a, ...b }: the keys of both, b's value where both have the key
Merge(a, b) ==
    [n \in DOMAIN a \cup DOMAIN b |-> IF n \in DOMAIN b THEN b[n] ELSE a[n]]

DefaultHeaders == [n \in {"accept", "Content-Type"} |-> "application/json"]

\* the defaults spread last, over the custom headers
SetupHeadersDefaultsLast(customHeaders) == Merge(customHeaders, DefaultHeaders)

\* setupHeaders(customHeaders)
SetupHeaders(customHeaders) == Merge(DefaultHeaders, customHeaders)

\* headers that never get the token
AddAuthToHeadersNever(headers) == headers

\* addAuthToHeaders(headers)
AddAuthToHeaders(headers) ==
    IF Truthy(api.authToken)
    THEN Merge(headers, [n \in {"Authorization"} |-> "Bearer " \o api.authToken])
    ELSE headers

\* createAuthHeaders(token)
CreateAuthHeaders(token) == [n \in {"x-auth-token"} |-> token]

\* a switch with a case for PUT, which goes out like PATCH
DispatchWithPut(method, endpoint, data, headers) ==
    LET verb == ToUpperCase(method)
    IN  IF verb \in Verbs \cup {"PUT"}
        THEN [kind |-> "request", verb |-> verb, endpoint |-> endpoint,
              headers |-> headers,
              data |-> IF verb \in {"GET", "DELETE"} THEN Undefined ELSE data]
        ELSE [kind |-> "error", message |-> "Unsupported HTTP method: " \o method]

\* switch (method.toUpperCase()): the request handed to Playwright, or the
\* Error thrown; GET and DELETE go out without the data
Dispatch(method, endpoint, data, headers) ==
    LET verb == ToUpperCase(method)
    IN  IF verb \in Verbs
        THEN [kind |-> "request", verb |-> verb, endpoint |-> endpoint,
              headers |-> headers,
              data |-> IF verb \in {"GET", "DELETE"} THEN Undefined ELSE data]
        ELSE [kind |-> "error", message |-> "Unsupported HTTP method: " \o method]

\* makeRequest(method, endpoint, data, customHeaders)
MakeRequest(method, endpoint, data, customHeaders) ==
    Dispatch(method, endpoint, data, AddAuthToHeaders(SetupHeaders(customHeaders)))

\* a request without the token that still goes through addAuthToHeaders
MakeRequestWithoutAuthAdds(method, endpoint, data, customHeaders) ==
    Dispatch(method, endpoint, data, AddAuthToHeaders(SetupHeaders(customHeaders)))

\* makeRequestWithoutAuth(method, endpoint, data, customHeaders)
MakeRequestWithoutAuth(method, endpoint, data, customHeaders) ==
    Dispatch(method, endpoint, data, SetupHeaders(customHeaders))

\* a public method returns: the customHeaders it was given or made, what it
\* sent or threw; nothing else changes
Returns(via, customHeaders, sent) ==
    /\ api' = [api EXCEPT !.via = via, !.custom = customHeaders, !.sent = sent]
    /\ UNCHANGED <<prog, env, clock, results, calls, output, disk, script, again, fsys, writers>>

Post ==
    /\ prog = "api"
    /\ \E endpoint \in Endpoints, data \in Bodies, customHeaders \in CustomHeaders :
          Returns("post", customHeaders, MakeRequest("POST", endpoint, data, customHeaders))

Get ==
    /\ prog = "api"
    /\ \E endpoint \in Endpoints, customHeaders \in CustomHeaders :
          Returns("get", customHeaders, MakeRequest("GET", endpoint, Undefined, customHeaders))

Patch ==
    /\ prog = "api"
    /\ \E endpoint \in Endpoints, data \in Bodies, customHeaders \in CustomHeaders :
          Returns("patch", customHeaders, MakeRequest("PATCH", endpoint, data, customHeaders))

Delete ==
    /\ prog = "api"
    /\ \E endpoint \in Endpoints, customHeaders \in CustomHeaders :
          Returns("delete", customHeaders, MakeRequest("DELETE", endpoint, Undefined, customHeaders))

\* setAuthToken(token)
SetAuthToken ==
    /\ prog = "api"
    /\ \E token \in Tokens :
          api' = [api EXCEPT !.authToken = token, !.via = "setAuthToken",
                             !.custom = NoHeaders, !.sent = NoOutput]
    /\ UNCHANGED <<prog, env, clock, results, calls, output, disk, script, again, fsys, writers>>

\* clearAuthToken()
ClearAuthToken ==
    /\ prog = "api"
    /\ api' = [api EXCEPT !.authToken = Undefined, !.via = "clearAuthToken",
                          !.custom = NoHeaders, !.sent = NoOutput]
    /\ UNCHANGED <<prog, env, clock, results, calls, output, disk, script, again, fsys, writers>>

\* the business methods: the wrapper each calls, its endpoint, and whether it
\* takes a token that it passes on through createAuthHeaders
BusinessMethods ==
    {[name |-> "registerUser", verb |-> "POST",
      endpoint |-> "/notes/api/users/register", token |-> FALSE],
     [name |-> "loginUser", verb |-> "POST",
      endpoint |-> "/notes/api/users/login", token |-> FALSE],
     [name |-> "getUserProfile", verb |-> "GET",
      endpoint |-> "/notes/api/users/profile", token |-> TRUE],
     [name |-> "updateUserProfile", verb |-> "PATCH",
      endpoint |-> "/notes/api/users/profile", token |-> TRUE],
     [name |-> "changePassword", verb |-> "POST",
      endpoint |-> "/notes/api/users/change-password", token |-> TRUE],
     [name |-> "forgotPassword", verb |-> "POST",
      endpoint |-> "/notes/api/users/forgot-password", token |-> FALSE],
     [name |-> "logoutUser", verb |-> "DELETE",
      endpoint |-> "/notes/api/users/logout", token |-> TRUE],
     [name |-> "deleteUserAccount", verb |-> "DELETE",
      endpoint |-> "/notes/api/users/delete-account", token |-> TRUE]}

BusinessNames == {m.name : m \in BusinessMethods}

\* registerUser ... deleteUserAccount
BusinessMethod ==
    /\ prog = "api"
    /\ \E m \in BusinessMethods, token \in Tokens :
          /\ ~m.token => token = ""
          /\ Returns(m.name,
                     IF m.token THEN CreateAuthHeaders(token) ELSE NoHeaders,
                     MakeRequest(m.verb, m.endpoint,
                                 IF m.verb \in {"GET", "DELETE"} THEN Undefined ELSE "body",
                                 IF m.token THEN CreateAuthHeaders(token) ELSE NoHeaders))

\* makeUnauthorizedRequest(method, endpoint, data)
MakeUnauthorizedRequest ==
    /\ prog = "api"
    /\ \E method \in Methods, endpoint \in Endpoints, data \in Bodies :
          Returns("makeUnauthorizedRequest", NoHeaders,
                  MakeRequestWithoutAuth(method, endpoint, data, NoHeaders))

\* makeInvalidDataRequest(method, endpoint, invalidData)
MakeInvalidDataRequest ==
    /\ prog = "api"
    /\ \E method \in Methods, endpoint \in Endpoints, invalidData \in Bodies :
          Returns("makeInvalidDataRequest", NoHeaders,
                  MakeRequest(method, endpoint, invalidData, NoHeaders))

\* the address built from a timestamp
Email(timestamp) == "test" \o ToString(timestamp) \o "@gmail.com"

\* generateUniqueEmail(): Date.now() is read once
GenerateUniqueEmail ==
    /\ prog = "api"
    /\ Len(api.emails) < MaxEmails
    /\ \E now \in Now :
          /\ clock' = now
          /\ api' = [api EXCEPT !.via = "generateUniqueEmail",
                                !.custom = NoHeaders,
                                !.sent = [kind |-> "email", value |-> Email(now)],
                                !.emails = Append(@, Email(now))]
    /\ UNCHANGED <<prog, env, results, calls, output, disk, script, again, fsys, writers>>

(***************************************************************************)
(* utils/testUtils.ts: ENVIRONMENTS and getCurrentEnvironment              *)
(***************************************************************************)
\* values of process.env.TEST_ENV seen by the configuration functions
TestEnvValues ==
    {Undefined, "", "practice", "staging", "production", "qa",
     "constructor", "toString", "__proto__"}

\* the own properties of the ENVIRONMENTS object
ENVIRONMENTS ==
    [practice |-> [type |-> "config", baseUrl |-> "https://practice.expandtesting.com",
                   timeout |-> 30000, retries |-> 2, apiVersion |-> "v1"],
     staging |-> [type |-> "config", baseUrl |-> "https://staging.expandtesting.com",
                  timeout |-> 30000, retries |-> 3, apiVersion |-> "v1"],
     production |-> [type |-> "config", baseUrl |-> "https://api.expandtesting.com",
                     timeout |-> 60000, retries |-> 1, apiVersion |-> "v1"]]

\* the properties an object literal inherits from Object.prototype
ObjectPrototypeKeys ==
    {"constructor", "toString", "valueOf", "hasOwnProperty", "__proto__"}

\* the value undefined
Undef == [type |-> "undefined"]

\* ENVIRONMENTS[name]: an own property, else an inherited one, else undefined
Lookup(name) ==
    IF name \in DOMAIN ENVIRONMENTS THEN ENVIRONMENTS[name]
    ELSE IF name \in ObjectPrototypeKeys THEN [type |-> "inherited", key |-> name]
    ELSE Undef

\* getCurrentEnvironment() with TEST_ENV = e
GetCurrentEnvironmentOf(e) ==
    LET found == Lookup(EnvLabel(e))
    IN  IF found.type # "undefined" THEN found ELSE ENVIRONMENTS.practice

\* value.field: the functions and the object inherited from Object.prototype
\* have none of the configuration's fields
Field(value, field) ==
    IF value.type = "config"
    THEN [type |-> "value", v |-> value[field]]
    ELSE Undef

\* a configuration function returns
EnvReturns(fn, value) ==
    /\ output' = [kind |-> "env", fn |-> fn, read |-> env, value |-> value]
    /\ UNCHANGED <<prog, env, clock, results, calls, disk, script, again, fsys, api, writers>>

GetCurrentEnvironment ==
    /\ prog = "config"
    /\ EnvReturns("getCurrentEnvironment", GetCurrentEnvironmentOf(env))

GetBaseUrl ==
    /\ prog = "config"
    /\ EnvReturns("getBaseUrl", Field(GetCurrentEnvironmentOf(env), "baseUrl"))

GetTimeout ==
    /\ prog = "config"
    /\ EnvReturns("getTimeout", Field(GetCurrentEnvironmentOf(env), "timeout"))

GetRetries ==
    /\ prog = "config"
    /\ EnvReturns("getRetries", Field(GetCurrentEnvironmentOf(env), "retries"))

\* process.env.TEST_ENV is assigned or deleted between two calls
SetTestEnv ==
    /\ prog = "config"
    /\ env' \in TestEnvValues \ {env}
    /\ UNCHANGED <<prog, clock, results, calls, output, disk, script, again, fsys, api, writers>>

(***************************************************************************)
(* Specification                                                           *)
(***************************************************************************)
\* the state of the script and of its files while the collector runs
NoDisk ==
    [reportDir |-> FALSE, customDir |-> FALSE,
     resultsFile |-> [state |-> "missing"], reports |-> << >>]

NoScript == [pc |-> "none", exit |-> 0, log |-> << >>]

\* the working directory before any report is saved
NoFiles ==
    [dirs |-> { <<".">> }, files |-> [p \in OutputPaths |-> NoFile], saves |-> 0]

\* an ApiHelpers object as constructed: no token, nothing sent
NoApi ==
    [authToken |-> Undefined, via |-> "none", custom |-> [n \in {} |-> ""],
     sent |-> NoOutput, emails |-> << >>]

Init ==
    /\ prog \in {"collector", "script"}
    /\ env \in EnvValues
    /\ clock = 0
    /\ results = << >>
    /\ calls = << >>
    /\ output = NoOutput
    /\ again = FALSE
    /\ IF prog = "script"
       THEN /\ \E rd \in BOOLEAN, cd \in BOOLEAN, f \in ResultsFiles :
                  disk = [reportDir |-> rd, customDir |-> cd,
                          resultsFile |-> f, reports |-> << >>]
            /\ script = [pc |-> "checkDirectories", exit |-> 0, log |-> << >>]
       ELSE /\ disk = NoDisk
            /\ script = NoScript
    /\ fsys = NoFiles
    /\ api = NoApi
    /\ writers = NoWriters

Next ==
    \/ AddTestResult
    \/ RenderHTML
    \/ RenderSummary
    \/ CheckDirectories
    \/ GenerateEnhancedReport
    \/ OpenReport

Spec == Init /\ [][Next]_vars

\* the collector saving its report, and the report script: the programs
\* that write a report file; the directory reports may exist beforehand
InitSave ==
    /\ prog \in {"collector", "script"}
    /\ env \in EnvValues
    /\ clock = 0
    /\ results = << >>
    /\ calls = << >>
    /\ output = NoOutput
    /\ again = FALSE
    /\ IF prog = "script"
       THEN /\ \E rd \in BOOLEAN, cd \in BOOLEAN, f \in ResultsFiles :
                  disk = [reportDir |-> rd, customDir |-> cd,
                          resultsFile |-> f, reports |-> << >>]
            /\ script = [pc |-> "checkDirectories", exit |-> 0, log |-> << >>]
            /\ fsys = NoFiles
       ELSE /\ disk = NoDisk
            /\ script = NoScript
            /\ \E ds \in SUBSET { <<"reports">> } :
                  fsys = [NoFiles EXCEPT !.dirs = @ \cup ds]
    /\ api = NoApi
    /\ writers = NoWriters

NextSave ==
    \/ AddTestResult
    \/ SaveHTMLReport
    \/ CheckDirectories
    \/ GenerateEnhancedReport
    \/ OpenReport

SpecSave == InitSave /\ [][NextSave]_vars

\* a test that drives one ApiHelpers object
InitApi ==
    /\ prog = "api"
    /\ env = Undefined
    /\ clock = 0
    /\ results = << >>
    /\ calls = << >>
    /\ output = NoOutput
    /\ again = FALSE
    /\ disk = NoDisk
    /\ script = NoScript
    /\ fsys = NoFiles
    /\ api = NoApi
    /\ writers = NoWriters

NextApi ==
    \/ Post
    \/ Get
    \/ Patch
    \/ Delete
    \/ SetAuthToken
    \/ ClearAuthToken
    \/ BusinessMethod
    \/ MakeUnauthorizedRequest
    \/ MakeInvalidDataRequest
    \/ GenerateUniqueEmail

SpecApi == InitApi /\ [][NextApi]_vars

\* two callers of one collector whose statements may interleave
InitRace ==
    /\ prog = "race"
    /\ env = Undefined
    /\ clock = 0
    /\ results = << >>
    /\ calls = << >>
    /\ output = NoOutput
    /\ again = FALSE
    /\ disk = NoDisk
    /\ script = NoScript
    /\ fsys = NoFiles
    /\ api = NoApi
    /\ writers = NoWriters

NextRace ==
    \E w \in Writers :
        \/ Enter(w)
        \/ Find(w)
        \/ Create(w)
        \/ Push(w)
        \/ Total(w)
        \/ Duration(w)
        \/ Count(w)

SpecRace == InitRace /\ [][NextRace]_vars

\* a process that reads its configuration
InitEnv ==
    /\ prog = "config"
    /\ env \in TestEnvValues
    /\ clock = 0
    /\ results = << >>
    /\ calls = << >>
    /\ output = NoOutput
    /\ again = FALSE
    /\ disk = NoDisk
    /\ script = NoScript
    /\ fsys = NoFiles
    /\ api = NoApi
    /\ writers = NoWriters

NextEnv ==
    \/ GetCurrentEnvironment
    \/ GetBaseUrl
    \/ GetTimeout
    \/ GetRetries
    \/ SetTestEnv

SpecEnv == InitEnv /\ [][NextEnv]_vars

(***************************************************************************)
(* Properties                                                              *)
(***************************************************************************)
Suites == {results[i] : i \in 1..Len(results)}

\* the recorded calls made for one suite name, as the results they created
RECURSIVE ResultsFor(_, _)
ResultsFor(cs, suiteName) ==
    IF cs = << >> THEN << >>
    ELSE LET rest == ResultsFor(SubSeq(cs, 1, Len(cs) - 1), suiteName)
             c == cs[Len(cs)]
         IN  IF c.suite = suiteName THEN Append(rest, c.result) ELSE rest

\* the recorded calls with one status
CallsWith(status) == {k \in 1..Len(calls) : calls[k].result.status = status}

RECURSIVE SumDurations(_)
SumDurations(cs) ==
    IF cs = << >> THEN 0 ELSE cs[1].result.duration + SumDurations(Tail(cs))

\* C1: after any sequence of addTestResult calls every suite has
\* total = passed + failed + skipped and total = the length of its results.
C1_CountsAddUp ==
    \A s \in Suites :
        /\ s.total = s.passed + s.failed + s.skipped
        /\ s.total = Len(s.results)

\* a suite that holds results of two different statuses
C1_Witness ==
    \E s \in Suites : s.total = 2 /\ s.passed = 1 /\ s.skipped = 1

\* C2: the totals the renderers compute are the per-status numbers of recorded
\* calls, the number of recorded calls and the sum of the recorded durations,
\* and the rendered statistics show these totals.
C2_GlobalTotals ==
    LET t == [totalTests |-> Len(calls),
              totalPassed |-> Cardinality(CallsWith("passed")),
              totalFailed |-> Cardinality(CallsWith("failed")),
              totalSkipped |-> Cardinality(CallsWith("skipped")),
              totalDuration |-> SumDurations(calls)]
    IN  /\ prog = "collector" => Totals(results) = t
        /\ output.kind = "html" =>
              /\ output.stats[1].value = ToString(t.totalPassed)
              /\ output.stats[2].value = ToString(t.totalFailed)
              /\ output.stats[3].value = ToString(t.totalSkipped)
              /\ output.stats[4].value = ToString(t.totalTests)
              /\ output.stats[5].value = ToFixed(t.totalDuration, 1000, 2) \o "s"
        /\ output.kind = "summary" =>
              /\ output.passed = ToString(t.totalPassed)
              /\ output.failed = ToString(t.totalFailed)
              /\ output.skipped = ToString(t.totalSkipped)
              /\ output.total = ToString(t.totalTests)
              /\ output.duration = ToFixed(t.totalDuration, 1000, 2) \o "s"

\* Auth/passed/120 then Auth/failed/80, rendered: 1, 1, 0, 2 and 200 ms
C2_Witness ==
    /\ Len(calls) = 2
    /\ calls[1].suite = "Auth" /\ calls[1].result.status = "passed"
    /\ calls[1].result.duration = 120
    /\ calls[2].suite = "Auth" /\ calls[2].result.status = "failed"
    /\ calls[2].result.duration = 80
    /\ output.kind = "html"
    /\ output.stats[1].value = "1" /\ output.stats[2].value = "1"
    /\ output.stats[3].value = "0" /\ output.stats[4].value = "2"
    /\ output.stats[5].value = "0.20s"

\* the texts that show 100 * passed / total rounded to one decimal place
RoundedRates(passed, total) ==
    LET lo == (1000 * passed) \div total
    IN  { ToString(n \div 10) \o "." \o ToString(n % 10) :
            n \in { m \in {lo, lo + 1} :
                      /\ 2 * (m * total - 1000 * passed) <= total
                      /\ 2 * (1000 * passed - m * total) <= total } }

\* the success rate as claimed: 0 when the total is 0, else the rounded rate
RateTexts(passed, total) ==
    IF total = 0 THEN {"0"} ELSE RoundedRates(passed, total)

\* the counts the report script reads: those of the file, or the defaults
FileCounts ==
    IF disk.resultsFile.state = "stats"
    THEN disk.resultsFile.stats
    ELSE [passed |-> 0, failed |-> 0, skipped |-> 0, total |-> 0, duration |-> 0]

\* C3: in both renderers the success rate is 0 when the total is 0 and
\* otherwise 100 * passed / total rounded to one decimal place.
C3_SuccessRate ==
    /\ output.kind = "summary" =>
          output.successRate
            \in RateTexts(Cardinality(CallsWith("passed")), Len(calls))
    /\ \A k \in 1..Len(disk.reports) :
          \E text \in RateTexts(FileCounts.passed, FileCounts.total) :
              /\ disk.reports[k].html.stats[6].value = text \o "%"
              /\ disk.reports[k].html.section.successRate = text \o "%"

\* one of two recorded tests passed and the summary shows 50.0
C3_Witness ==
    /\ output.kind = "summary"
    /\ output.passed = "1" /\ output.total = "2"
    /\ output.successRate = "50.0"

\* C4: the collector holds exactly one suite per suite name passed to
\* addTestResult: no two suites share a name, and a suite exists exactly when
\* a call was made under its name.
C4_OneSuitePerName ==
    /\ \A i, j \in 1..Len(results) : results[i].name = results[j].name => i = j
    /\ {results[i].name : i \in 1..Len(results)}
         = {calls[k].suite : k \in 1..Len(calls)}

\* the second call under a name found the suite the first call created
C4_Witness ==
    /\ Len(calls) = 2
    /\ calls[1].suite = calls[2].suite
    /\ Len(results) = 1

SuiteNamesOf(rs) == [i \in 1..Len(rs) |-> rs[i].name]

\* the suite names of the recorded calls, each at its first occurrence
RECURSIVE FirstSeen(_)
FirstSeen(cs) ==
    IF cs = << >> THEN << >>
    ELSE LET before == FirstSeen(SubSeq(cs, 1, Len(cs) - 1))
             name == cs[Len(cs)].suite
         IN  IF \E i \in 1..Len(before) : before[i] = name
             THEN before
             ELSE Append(before, name)

\* C5: the sequence of suites only grows: no suite is removed or moved, a new
\* suite goes to the end, and the suites stand in first-seen order.
C5_SuitesOnlyGrow ==
    [][ /\ Len(results') >= Len(results)
        /\ \A i \in 1..Len(results) : results'[i].name = results[i].name
        /\ SuiteNamesOf(results') = FirstSeen(calls') ]_vars

\* "Users" was seen before "Auth" and stands before it
C5_Witness ==
    /\ Len(results) = 2
    /\ results[1].name = "Users"
    /\ results[2].name = "Auth"

IsPrefix(a, b) == Len(a) <= Len(b) /\ SubSeq(b, 1, Len(a)) = a

\* C6: a suite's results are append-only and in registration order: they are
\* the calls made for that suite name, in call order, and no later call or
\* render changes, reorders or removes a result.
C6_ResultsAppendOnly ==
    [][ /\ \A i \in 1..Len(results) :
              /\ i <= Len(results')
              /\ IsPrefix(results[i].results, results'[i].results)
        /\ \A i \in 1..Len(results') :
              results'[i].results = ResultsFor(calls', results'[i].name) ]_vars

\* two different results of one suite, in call order, after a render
C6_Witness ==
    /\ Len(results) = 1
    /\ Len(results[1].results) = 2
    /\ results[1].results[1].name = "login-fail"
    /\ results[1].results[2].name = "login-ok"
    /\ output.kind = "html"

\* C7: one addTestResult call adds 1 to its suite's total, d to its duration
\* and 1 to the counter of its status, and leaves the suite's other two
\* counters and every other suite as they were.
C7_CallFrame ==
    [][ Len(calls') = Len(calls) + 1 =>
          LET c == calls'[Len(calls')]
              one(st) == IF c.result.status = st THEN 1 ELSE 0
          IN  \E j \in 1..Len(results') :
                LET new == results'[j]
                    old == IF j <= Len(results)
                           THEN results[j]
                           ELSE [name |-> c.suite, total |-> 0, passed |-> 0,
                                 failed |-> 0, skipped |-> 0, duration |-> 0,
                                 results |-> << >>]
                IN  /\ new.name = c.suite
                    /\ old.name = c.suite
                    /\ new.total = old.total + 1
                    /\ new.duration = old.duration + c.result.duration
                    /\ new.passed = old.passed + one("passed")
                    /\ new.failed = old.failed + one("failed")
                    /\ new.skipped = old.skipped + one("skipped")
                    /\ Len(results') = IF j <= Len(results)
                                       THEN Len(results)
                                       ELSE Len(results) + 1
                    /\ \A i \in 1..Len(results) : i # j => results'[i] = results[i]
      ]_vars

\* a call for a second suite was made while the first suite held a result
C7_Witness ==
    /\ Len(results) = 2
    /\ results[1].total = 1 /\ results[1].failed = 1
    /\ results[2].total = 1 /\ results[2].passed = 1

\* a rendered value without its embedded timestamp
WithoutTimestamp(o) == [o EXCEPT !.generatedOn = 0]

CardLabels(doc) == [i \in 1..Len(doc.stats) |-> doc.stats[i].label]

C10_EmptyReport ==
    (output.kind = "html" /\ calls = << >>) =>
        /\ [i \in 1..Len(output.stats) |-> output.stats[i].value]
             = <<"0", "0", "0", "0", "0.00s">>
        /\ Len(output.suites) = 0

\* a report rendered before any addTestResult call
C10_Witness ==
    /\ output.kind = "html"
    /\ calls = << >>
    /\ results = << >>

\* the <div class="test-result"> entries of a suite block, in document order
Entries(blocks) == SelectSeq(blocks, LAMBDA b : b.class = "test-result")

\* C11: the document has exactly one block per suite, in the suites' order,
\* and in each block exactly one entry per result of that suite, in the order
\* of the results, showing its name, status and duration.
C11_BlocksAndEntries ==
    output.kind = "html" =>
        /\ Len(output.suites) = Len(FirstSeen(calls))
        /\ \A i \in 1..Len(output.suites) :
              LET name == FirstSeen(calls)[i]
                  rs == ResultsFor(calls, name)
                  es == Entries(output.suites[i].blocks)
              IN  /\ output.suites[i].name = name
                  /\ Len(es) = Len(rs)
                  /\ \A k \in 1..Len(rs) :
                        /\ es[k].name = rs[k].name
                        /\ es[k].status = rs[k].status
                        /\ es[k].duration = ToFixed(rs[k].duration, 1000, 2) \o "s"

\* one suite block with the entries of its two results, in call order
C11_Witness ==
    /\ output.kind = "html"
    /\ Len(output.suites) = 1
    /\ Len(Entries(output.suites[1].blocks)) = 2
    /\ Entries(output.suites[1].blocks)[1].name = "login-ok"
    /\ Entries(output.suites[1].blocks)[2].name = "login-fail"

\* C12: every failed result that carries an error text is rendered with an
\* error block holding that text directly after its own entry, before the
\* entry of the next result.
C12_ErrorBlockAdjacent ==
    output.kind = "html" =>
        \A i \in 1..Len(output.suites) :
            LET rs == ResultsFor(calls, output.suites[i].name)
                blocks == output.suites[i].blocks
            IN  \A k \in 1..Len(rs) :
                  (rs[k].status = "failed" /\ rs[k].error \notin {Undefined, ""}) =>
                     \E p \in 1..(Len(blocks) - 1) :
                        /\ blocks[p].class = "test-result"
                        /\ Cardinality({q \in 1..p : blocks[q].class = "test-result"}) = k
                        /\ blocks[p + 1]
                             = [class |-> "error-details", text |-> rs[k].error]

\* a failed result with the text "expected 200 got 401", then a second result
C12_Witness ==
    /\ output.kind = "html"
    /\ Len(calls) = 2
    /\ calls[1].result.status = "failed"
    /\ calls[1].result.error = "expected 200 got 401"
    /\ Len(output.suites) = 1
    /\ Len(output.suites[1].blocks) = 3
    /\ output.suites[1].blocks[2]
         = [class |-> "error-details", text |-> "expected 200 got 401"]
    /\ output.suites[1].blocks[3].class = "test-result"

\* the values of the statistic cards of a document, in document order
CardValues(doc) == [i \in 1..Len(doc.stats) |-> doc.stats[i].value]

\* the report script has run generateEnhancedReport
ReportStepDone == prog = "script" /\ script.pc = "openReport"

\* the element x occurs in the sequence s
Logged(s, x) == \E i \in 1..Len(s) : s[i] = x

C15_ErrorsSwallowed ==
    (prog = "script" /\ disk.resultsFile.state \in {"invalid", "nostats"}) =>
        /\ GetTestResults(disk.resultsFile).results = DefaultResults
        /\ \A i \in 1..Len(disk.reports) :
              CardValues(disk.reports[i].html) = <<"0", "0", "0", "0", "0s", "0%">>
        /\ ReportStepDone =>
              script.log = << Warning, "Enhanced HTML report generated" >>
        /\ (script.pc = "exited" /\ disk.reportDir) =>
              /\ script.log[1] = Warning
              /\ script.log[2] \in {"Enhanced HTML report generated",
                                    "Error generating report"}

\* a report written from a results file that is not valid JSON
C15_Witness ==
    /\ ReportStepDone
    /\ disk.resultsFile.state = "invalid"
    /\ Len(disk.reports) = 1
    /\ Logged(script.log, Warning)

\* C16: a failed write of the report is surfaced and not tried again:
\* saveHTMLReport makes at most one write attempt and a failed attempt leaves
\* it by the exception, without the success message; the report script that
\* got past its directory check and wrote no report has exit status 1 and
\* reports the error, not the success.
C16_WriteFailureSurfaced ==
    /\ output.kind = "save" =>
          /\ output.attempts <= 1
          /\ output.failures > 0 => (output.threw /\ ~output.logged)
    /\ (prog = "script" /\ script.pc = "exited" /\ disk.reportDir
          /\ disk.reports = << >>) =>
          /\ script.exit = 1
          /\ script.log[Len(script.log)] = "Error generating report"
          /\ ~Logged(script.log, "Enhanced HTML report generated")

\* saveHTMLReport left by the exception of its one failed write
C16_Witness ==
    /\ output.kind = "save"
    /\ output.attempts = 1
    /\ output.failures = 1
    /\ output.threw
    /\ fsys.files[output.path] = NoFile

\* the public methods that send through makeRequest with the caller's headers
AuthVias == {"get", "post", "patch", "delete"} \cup BusinessNames

\* C17: makeRequest and makeRequestWithoutAuth send a request for GET, POST,
\* PATCH and DELETE only, in any letter case; for every other verb, PUT
\* included, the result is the error 'Unsupported HTTP method: ' followed by
\* the verb as it was passed, and no request.
C17_UnsupportedVerbs ==
    /\ \A method \in Methods, endpoint \in Endpoints, data \in Bodies :
          \A r \in {MakeRequest(method, endpoint, data, NoHeaders),
                    MakeRequestWithoutAuth(method, endpoint, data, NoHeaders)} :
              IF ToUpperCase(method) \in {"GET", "POST", "PATCH", "DELETE"}
              THEN r.kind = "request" /\ r.verb = ToUpperCase(method)
              ELSE r = [kind |-> "error",
                        message |-> "Unsupported HTTP method: " \o method]
    /\ api.sent.kind = "request" =>
          api.sent.verb \in {"GET", "POST", "PATCH", "DELETE"}
    /\ (api.sent.kind = "error") =>
          /\ api.via \in {"makeUnauthorizedRequest", "makeInvalidDataRequest"}
          /\ \E method \in {"PUT", "put", "HEAD"} :
                api.sent.message = "Unsupported HTTP method: " \o method

\* makeInvalidDataRequest called with the verb put
C17_Witness ==
    /\ api.via = "makeInvalidDataRequest"
    /\ api.sent = [kind |-> "error", message |-> "Unsupported HTTP method: put"]

\* the stored token changes in setAuthToken and clearAuthToken only
TokenKept ==
    api'.authToken # api.authToken => api'.via \in {"setAuthToken", "clearAuthToken"}

\* C18 as claimed: a request of get, post, patch, delete or a business method
\* carries Authorization: Bearer t while a token t is stored and no
\* Authorization header while none is stored, and no request method changes
\* the stored token.
C18_TokenOnEveryRequest ==
    /\ [](api.via \in AuthVias /\ api.sent.kind = "request" =>
            IF api.authToken # Undefined
            THEN /\ "Authorization" \in DOMAIN api.sent.headers
                 /\ api.sent.headers["Authorization"] = "Bearer " \o api.authToken
            ELSE "Authorization" \notin DOMAIN api.sent.headers)
    /\ [][TokenKept]_vars

\* C18, amended: while a non-empty token t is stored, a request of get, post,
\* patch, delete or a business method carries Authorization: Bearer t; while
\* the token is cleared, never set or the empty string, the request carries
\* the default and the caller's headers only, so an Authorization header only
\* if the caller passed one; no request method changes the stored token.
C18_TokenWhenSet ==
    /\ [](api.via \in AuthVias /\ api.sent.kind = "request" =>
            IF api.authToken \notin {Undefined, ""}
            THEN /\ "Authorization" \in DOMAIN api.sent.headers
                 /\ api.sent.headers["Authorization"] = "Bearer " \o api.authToken
            ELSE api.sent.headers \in
                    {Merge(DefaultHeaders, c) :
                        c \in CustomHeaders \cup {CreateAuthHeaders(t) : t \in Tokens}})
    /\ [][TokenKept]_vars

\* getUserProfile called while the token tokA is stored
C18_Witness ==
    /\ api.authToken = "tokA"
    /\ api.via = "getUserProfile"
    /\ api.sent.kind = "request"
    /\ api.sent.headers["Authorization"] = "Bearer tokA"

\* C19: a request of makeUnauthorizedRequest has exactly the default accept
\* and Content-Type headers, whatever token is stored.
C19_NoAuthentication ==
    (api.via = "makeUnauthorizedRequest" /\ api.sent.kind = "request") =>
        /\ DOMAIN api.sent.headers = {"accept", "Content-Type"}
        /\ api.sent.headers["accept"] = "application/json"
        /\ api.sent.headers["Content-Type"] = "application/json"

\* makeUnauthorizedRequest called while the token tokA is stored
C19_Witness ==
    /\ api.authToken = "tokA"
    /\ api.via = "makeUnauthorizedRequest"
    /\ api.sent.kind = "request"
    /\ api.sent.verb = "GET"

\* C20: any two calls of generateUniqueEmail in a run return different
\* strings.
C20_EmailsUnique ==
    \A i \in 1..Len(api.emails), j \in 1..Len(api.emails) :
        i # j => api.emails[i] # api.emails[j]

\* the configuration the documentation promises for a value of TEST_ENV
Promised(e) ==
    IF e \in {"practice", "staging", "production"}
    THEN ENVIRONMENTS[e]
    ELSE ENVIRONMENTS.practice

\* C21: getCurrentEnvironment returns the configuration named by TEST_ENV
\* and the practice configuration when TEST_ENV is unset, empty or any other
\* string, so getBaseUrl, getTimeout and getRetries return a defined value of
\* one of the three configurations.
C21_EnvironmentTotal ==
    output.kind = "env" =>
        /\ output.fn = "getCurrentEnvironment" => output.value = Promised(output.read)
        /\ output.fn = "getBaseUrl" =>
              output.value = [type |-> "value", v |-> Promised(output.read).baseUrl]
        /\ output.fn = "getTimeout" =>
              output.value = [type |-> "value", v |-> Promised(output.read).timeout]
        /\ output.fn = "getRetries" =>
              output.value = [type |-> "value", v |-> Promised(output.read).retries]

RECURSIVE SumOf(_)
\* the sum of the durations of a sequence of results
SumOf(rs) == IF rs = << >> THEN 0 ELSE rs[1].duration + SumOf(Tail(rs))

\* the recorded calls that passed a negative duration
NegativeCalls == {k \in 1..Len(calls) : calls[k].result.duration < 0}

\* C22: a call with a negative duration is accepted like any other: its
\* result is appended with that duration, the counters count it, and the
\* duration of the suite, and the rendered total, include the negative value.
C22_NegativeAccepted ==
    \A k \in NegativeCalls :
        LET i == FindSuite(results, calls[k].suite)
            rs == ResultsFor(calls, calls[k].suite)
        IN  /\ i # 0
            /\ results[i].results = rs
            /\ results[i].total = Len(rs)
            /\ results[i].passed + results[i].failed + results[i].skipped = Len(rs)
            /\ results[i].duration = SumOf(rs)
            /\ output.kind = "html" =>
                  output.stats[5].value = ToFixed(SumDurations(calls), 1000, 2) \o "s"

\* one call with the duration -40: the suite and the rendered total are negative
C22_Witness ==
    /\ Len(calls) = 1
    /\ calls[1].result.duration = -40
    /\ results[1].duration = -40
    /\ results[1].total = 1
    /\ output.kind = "html"
    /\ output.stats[5].value = "-0.04s"

\* two digits
TwoDigits(n) == ToString(n \div 10) \o ToString(n % 10)

\* ms / 1000 written with exactly two decimal places and the unit: the
\* hundredths q nearest to |ms| / 10, then sign, whole seconds, point, digits
TwoDecimalSeconds(ms) ==
    LET a == IF ms < 0 THEN -ms ELSE ms
        q == CHOOSE q \in 0..(a \div 10 + 1) : 10 * q - 5 <= a /\ a < 10 * q + 5
    IN  (IF ms < 0 THEN "-" ELSE "") \o ToString(q \div 100) \o "."
        \o TwoDigits(q % 100) \o "s"

\* the durations of the collector's renderers have two decimal places
CollectorDurations ==
    /\ output.kind = "summary" =>
          output.duration = TwoDecimalSeconds(SumDurations(calls))
    /\ output.kind = "html" =>
          /\ output.stats[5].value = TwoDecimalSeconds(SumDurations(calls))
          /\ \A i \in 1..Len(output.suites) :
                LET rs == ResultsFor(calls, output.suites[i].name)
                    es == Entries(output.suites[i].blocks)
                IN  /\ output.suites[i].duration = TwoDecimalSeconds(SumOf(rs))
                    /\ \A k \in 1..Len(es) :
                          es[k].duration = TwoDecimalSeconds(rs[k].duration)

RateTextsInRange == {"0"} \cup {ToFixed(n, 10, 1) : n \in 0..1000}

\* no counter of a suite decreases
CountersGrow ==
    \A i \in 1..Len(results) :
        /\ i <= Len(results')
        /\ results'[i].total >= results[i].total
        /\ results'[i].passed >= results[i].passed
        /\ results'[i].failed >= results[i].failed
        /\ results'[i].skipped >= results[i].skipped

\* every status counter lies between 0 and the total of its suite, and the
\* success rate of the totals between 0 and 100
CountersBounded ==
    /\ \A i \in 1..Len(results) :
          /\ 0 <= results[i].passed /\ results[i].passed <= results[i].total
          /\ 0 <= results[i].failed /\ results[i].failed <= results[i].total
          /\ 0 <= results[i].skipped /\ results[i].skipped <= results[i].total
    /\ Totals(results).totalPassed <= Totals(results).totalTests
    /\ SuccessRate(Totals(results).totalPassed, Totals(results).totalTests)
         \in RateTextsInRange
    /\ (output.kind = "summary" => output.successRate \in RateTextsInRange)

\* C27: every suite has its three status counters between 0 and its total,
\* no counter ever decreases, and the success rate computed from the suites
\* lies between 0 and 100.
C27_CounterBounds == []CountersBounded /\ [][CountersGrow]_vars

\* one passed and one failed result, summarised with the rate 50.0
C27_Witness ==
    /\ output.kind = "summary"
    /\ output.successRate = "50.0"
    /\ Len(results) = 1
    /\ results[1].passed = 1
    /\ results[1].total = 2

\* the k-th entry of a suite block is directly followed by an error block
HasErrorBlock(blocks, k) ==
    \E p \in 1..(Len(blocks) - 1) :
        /\ blocks[p].class = "test-result"
        /\ Cardinality({q \in 1..p : blocks[q].class = "test-result"}) = k
        /\ blocks[p + 1].class = "error-details"

\* C28 as claimed: a result gets an error block if and only if it is failed
\* and carries a non-empty error string.
C28_ErrorBlockOnlyFailed ==
    output.kind = "html" =>
        \A i \in 1..Len(output.suites) :
            LET rs == ResultsFor(calls, output.suites[i].name)
            IN  \A k \in 1..Len(rs) :
                    HasErrorBlock(output.suites[i].blocks, k)
                      <=> (rs[k].status = "failed" /\ rs[k].error \notin {Undefined, ""})

\* C28, amended: a result gets an error block if and only if it carries a
\* non-empty error string, whatever its status.
C28_ErrorBlockIffError ==
    output.kind = "html" =>
        \A i \in 1..Len(output.suites) :
            LET rs == ResultsFor(calls, output.suites[i].name)
            IN  \A k \in 1..Len(rs) :
                    HasErrorBlock(output.suites[i].blocks, k)
                      <=> rs[k].error \notin {Undefined, ""}

\* a passed result recorded with an error string, rendered with its error block
C28_Witness ==
    /\ output.kind = "html"
    /\ Len(calls) = 1
    /\ calls[1].result.status = "passed"
    /\ calls[1].result.error = "expected 200 got 401"
    /\ HasErrorBlock(output.suites[1].blocks, 1)

RECURSIVE Replay(_)
\* the suites a sequence of addTestResult calls builds from an empty collector
Replay(cs) ==
    IF cs = << >> THEN << >>
    ELSE AddTestResultTo(Replay(SubSeq(cs, 1, Len(cs) - 1)),
                         cs[Len(cs)].suite, cs[Len(cs)].result)

\* the suite blocks of a document rendered from the suites rs
RenderedSuites(rs) == [i \in 1..Len(rs) |-> SuiteBlock(rs[i])]

\* the report files written so far
SavedFiles == {p \in OutputPaths : fsys.files[p] # NoFile}

Serialized == \A w \in Writers : writers[w].pc # "idle" => ~writers[w].overlapped

\* no caller is inside addTestResult
Quiescent == \A w \in Writers : writers[w].pc \in {"idle", "done"}

\* the counters of every suite agree with its results, and names are unique
Consistent ==
    /\ \A i \in 1..Len(results) :
          /\ results[i].total = Len(results[i].results)
          /\ results[i].passed + results[i].failed + results[i].skipped
               = results[i].total
          /\ results[i].duration = SumOf(results[i].results)
    /\ \A i \in 1..Len(results), j \in 1..Len(results) :
          results[i].name = results[j].name => i = j

\* C24: the collector is correct under serialized access: when no call was
\* entered while another was inside, the suites are consistent after the
\* calls; with interleaved statements an inconsistent state is reachable.
C24_SerializedCorrect == (Serialized /\ Quiescent) => Consistent

\* two interleaved calls for one suite name have returned and left two
\* suites with that name
C24_Witness ==
    /\ prog = "race"
    /\ ~Serialized
    /\ Quiescent
    /\ Len(results) = 2
    /\ results[1].name = results[2].name
    /\ ~Consistent

\* C26: after a successful saveHTMLReport the directory of the path exists,
\* having been created with its missing parents if it was not there, and the
\* file at the path holds exactly the document of generateHTMLReport; without
\* an argument the path is custom-report.html.
C26_SavedReport ==
    (output.kind = "save" /\ ~output.threw) =>
        /\ output.path = (IF output.args = << >>
                          THEN <<"custom-report.html">>
                          ELSE output.args[1])
        /\ \A k \in 1..(Len(output.path) - 1) : SubSeq(output.path, 1, k) \in fsys.dirs
        /\ Dirname(output.path) \in fsys.dirs
        /\ fsys.files[output.path] = GenerateHTMLReport(results, clock, env)
        /\ output.attempts = 1
        /\ output.logged

\* a report saved under reports/html, a directory the call had to create
C26_Witness ==
    /\ output.kind = "save"
    /\ ~output.threw
    /\ output.mkdir
    /\ output.path = <<"reports", "html", "out.html">>
    /\ {<<"reports">>, <<"reports", "html">>} \subseteq fsys.dirs
    /\ fsys.files[output.path].kind = "html"
    /\ Len(fsys.files[output.path].suites) = 1

\* C29: the headers of a request of makeRequest are the defaults accept and
\* Content-Type, overridden by a custom header with the same key; a stored
\* token is applied last as Authorization: Bearer <token> and overrides a
\* custom Authorization header; custom headers with other keys pass through.
C29_MergePrecedence ==
    (api.via \in AuthVias /\ api.sent.kind = "request") =>
        LET h == api.sent.headers
            c == api.custom
            stored == api.authToken \notin {Undefined, ""}
        IN  /\ DOMAIN h = {"accept", "Content-Type"} \cup DOMAIN c
                            \cup (IF stored THEN {"Authorization"} ELSE {})
            /\ \A n \in DOMAIN h :
                  h[n] = IF n = "Authorization" /\ stored
                         THEN "Bearer " \o api.authToken
                         ELSE IF n \in DOMAIN c THEN c[n]
                         ELSE "application/json"

\* get called with a custom Authorization header while tokA is stored
C29_Witness ==
    /\ api.authToken = "tokA"
    /\ api.via = "get"
    /\ "Authorization" \in DOMAIN api.custom
    /\ api.custom["Authorization"] = "Basic abc"
    /\ api.sent.kind = "request"
    /\ api.sent.headers["Authorization"] = "Bearer tokA"
    /\ api.sent.headers["accept"] = "application/json"

\* the script moves from one step to the next one, or exits
StepOrder ==
    script'.pc # script.pc =>
        <<script.pc, script'.pc>> \in
            {<<"checkDirectories", "generateEnhancedReport">>,
             <<"checkDirectories", "exited">>,
             <<"generateEnhancedReport", "openReport">>,
             <<"generateEnhancedReport", "exited">>,
             <<"openReport", "exited">>}

\* without the playwright-report directory the script exits with status 1
\* and writes nothing; a failed open command leaves the report and status 0
DirectoryAndOpen ==
    /\ ~disk.reportDir =>
          /\ disk.reports = << >>
          /\ script.pc \in {"checkDirectories", "exited"}
          /\ script.pc = "exited" => script.exit = 1
    /\ (script.pc = "exited" /\ Len(script.log) > 0
          /\ script.log[Len(script.log)] = "Open this file in your browser") =>
          /\ script.exit = 0
          /\ Len(disk.reports) = 1

\* C30 as claimed: the steps run in the order checkDirectories,
\* generateEnhancedReport, openReport; without the playwright-report
\* directory the script exits with status 1 and no report; with it exactly
\* one report is written; a failed open command is swallowed.
C30_ExactlyOneReport ==
    /\ [](prog = "script" =>
            /\ DirectoryAndOpen
            /\ (disk.reportDir /\ script.pc \in {"openReport", "exited"}) =>
                  Len(disk.reports) = 1)
    /\ [][StepOrder]_vars

\* C30, amended: as claimed, except that with the directory present at most
\* one report is written: exactly one when the write succeeds, and none when
\* it fails, in which case the script exits with status 1 at that step.
C30_ScriptSteps ==
    /\ [](prog = "script" =>
            /\ DirectoryAndOpen
            /\ script.pc = "openReport" => Len(disk.reports) = 1
            /\ (disk.reportDir /\ script.pc = "exited") =>
                  \/ script.exit = 0 /\ Len(disk.reports) = 1
                  \/ /\ script.exit = 1
                     /\ Len(disk.reports) = 0
                     /\ script.log[Len(script.log)] = "Error generating report")
    /\ [][StepOrder]_vars

\* the open command failed after the report was written: status 0, one report
C30_Witness ==
    /\ prog = "script"
    /\ script.pc = "exited"
    /\ script.exit = 0
    /\ script.log[Len(script.log)] = "Open this file in your browser"
    /\ Len(disk.reports) = 1

====
